---------------------------- MODULE Spec2Model ----------------------------
(***************************************************************************)
(* Model of the forecast cache of server.js: the scheduled and on-demand   *)
(* refresh (updateWeatherData), the scrape and day merge                   *)
(* (scrapeWeatherData, scrapeHourlyFromUrl), the browser session           *)
(* (initBrowser), the screenshot capture (saveScreenshotAsBmp) and the     *)
(* request handler of GET /api/hourly-forecast.                            *)
(*                                                                         *)
(* The runtime is single-threaded: one action of the model is one turn of  *)
(* the event loop, i.e. the code that runs from the resumption of an       *)
(* awaited browser/timer/network operation up to the next such await,      *)
(* promise continuations (microtasks) included.                            *)
(*                                                                         *)
(* Time is counted in steps of TicksPerHour per hour; a Date is the number *)
(* of steps since local midnight of day 0.                                 *)
(*                                                                         *)
(* Three specifications share the definitions: Spec follows the server,    *)
(* its timer, its requests and the turns of each refresh, with a page      *)
(* reduced to the hour and the temperature of its cards; FairSpec is Spec  *)
(* over an unbounded run in which every browser operation ends; ScrapeSpec *)
(* follows one scrape through the extraction of every field of every card. *)
(***************************************************************************)
EXTENDS Integers, Sequences, FiniteSets, TLC

(***************************************************************************)
(* Bounds of the model.                                                    *)
(***************************************************************************)
\* number of GET /api/hourly-forecast requests that arrive
MaxReq == 2
\* number of updateWeatherData runs that get past the in-flight check
MaxRuns == 2
\* steps of the clock the model follows after the start of the server
MaxElapsed == 3

(***************************************************************************)
(* Program constants.                                                      *)
(***************************************************************************)
TOMORROW_FETCH_THRESHOLD_HOURS == 12
\* DATA_REFRESH_INTERVAL = 60 * 60 * 1000 ms, in hours
DATA_REFRESH_INTERVAL == 1
\* cards.slice(0, 16) and allForecastData.slice(0, 16)
MAX_HOURS == 16
\* the initial value `let temperature = null` of a card's temperature
NoTemperature == -1

\* steps of the clock per hour (the 1000 * 60 * 60 ms of an hour)
TicksPerHour == 2
DayTicks == 24 * TicksPerHour

\* the value null of cachedWeatherData, lastFetchTime and of a response not yet sent
NULL == [null |-> TRUE]

Req == 1..MaxReq
Run == 1..MaxRuns
\* the owner of an updateWeatherData call made by startHourlyDataRefresh
Scheduler == 0

\* the wall-clock time at which the server is started: one step before noon, so
\* that the clock passes the point where 12 hours remain in the day
StartTime == 12 * TicksPerHour - 1
MaxTime == StartTime + MaxElapsed

(***************************************************************************)
(* What a scraped page may hold: a card carries the hour its time text     *)
(* parses to and the temperature its selectors yield (or none).  The pages *)
(* are: no card, one card, a card without temperature, two cards out of    *)
(* order, the same hour twice, and a card behind one without temperature.  *)
(***************************************************************************)
Pages ==
  { <<>>,
    << [hour |-> 13, temp |-> 70] >>,
    << [hour |-> 11, temp |-> 68] >>,
    << [hour |-> 13, temp |-> NoTemperature] >>,
    << [hour |-> 11, temp |-> 68], [hour |-> 13, temp |-> 70] >>,
    << [hour |-> 13, temp |-> 70], [hour |-> 13, temp |-> 70] >>,
    << [hour |-> 13, temp |-> NoTemperature], [hour |-> 11, temp |-> 68] >> }

(***************************************************************************)
(* The pages of ScrapeSpec, card by card as the selectors see them.        *)
(***************************************************************************)
\* the decimal digits of n < 100, as the page prints a number
digitsOf(n) == IF n < 10 THEN << n >> ELSE << n \div 10, n % 10 >>

\* the text of an element: "72°", "30%", "3 PM"
text(digits, mark) == [ realFeel |-> FALSE, digits |-> digits, mark |-> mark ]

\* the time of day as the page prints it: "12 AM", "1 AM", ..., "11 PM"
timeText(h) ==
  text(digitsOf(IF h % 12 = 0 THEN 12 ELSE h % 12), IF h < 12 THEN "AM" ELSE "PM")

\* a card of the page as AccuWeather renders it for hour h: every selector finds
\* its element
hourCard(h, temp) ==
  [ time    |-> timeText(h),
    temp    |-> text(digitsOf(temp), "deg"),
    temps   |-> << text(digitsOf(temp), "deg") >>,
    precips |-> << text(<< 1, 0 >>, "%") >>,
    amount  |-> text(<< 1 >>, "in"),
    phrases |-> << [text |-> "Sunny"] >> ]

\* the page with the n hours from hour first on
hourlyPage(first, n) ==
  [ k \in 1..n |-> hourCard((first + k - 1) % 24, 59 + k) ]

\* a page of n cards in which no time selector finds an element
untimedPage(n) ==
  [ k \in 1..n |-> [ hourCard(0, 59 + k) EXCEPT !.time = NULL ] ]

\* a card in which only the named selectors find something
sparseCard(time, temp, temps, precips, phrases) ==
  [ time |-> time, temp |-> temp, temps |-> temps, precips |-> precips,
    amount |-> NULL, phrases |-> phrases ]

\* cards that the selectors read in part, not at all, or with unusual numbers
OddCards ==
  { \* no temperature anywhere
    [ hourCard(15, 70) EXCEPT !.temp = NULL, !.temps = << >> ],
    \* nothing but a temperature
    sparseCard(NULL, text(<< 7, 1 >>, "deg"), << >>, << >>, << >>),
    \* "200°" under the first selector, and under one of the others
    sparseCard(timeText(15), text(<< 2, 0, 0 >>, "deg"), << >>, << >>, << >>),
    sparseCard(timeText(15), NULL,
               << text(<< 2, 0, 0 >>, "deg"), text(<< 7, 2 >>, "deg") >>, << >>, << >>),
    sparseCard(timeText(15), NULL, << text(<< 1, 5, 1 >>, "deg") >>, << >>, << >>),
    \* the first element is the RealFeel, the next the temperature
    sparseCard(timeText(15), NULL,
               << [ text(<< 6, 5 >>, "deg") EXCEPT !.realFeel = TRUE ], NULL,
                  text(<< 7, 3 >>, "deg") >>, << >>, << >>),
    \* the RealFeel is the only temperature of the card
    sparseCard(timeText(15), NULL,
               << [ text(<< 6, 6 >>, "deg") EXCEPT !.realFeel = TRUE ] >>, << >>, << >>),
    \* a number without a degree mark under the first selector
    sparseCard(timeText(15), text(<< 7, 4 >>, ""), << text(<< 0 >>, "deg") >>, << >>, << >>),
    \* a cold and a hot hour
    sparseCard(timeText(15), text(<< 1, 9 >>, "deg"), << >>, << >>, << >>),
    sparseCard(timeText(15), NULL, << text(<< 1, 5, 0 >>, "deg") >>, << >>, << >>),
    \* "150%", and a percentage behind an element without one
    [ hourCard(15, 75) EXCEPT !.precips = << text(<< 1, 5, 0 >>, "%") >> ],
    [ hourCard(15, 76) EXCEPT !.precips = << text(<< >>, ""), NULL, text(<< 1, 0, 0 >>, "%") >> ],
    \* a time without a period, an empty phrase, an amount in millimetres
    [ hourCard(15, 77) EXCEPT !.time = text(<< 3 >>, ""),
                              !.phrases = << NULL, [text |-> ""], [text |-> "Cloudy"] >>,
                              !.amount = text(<< 5 >>, "mm") ] }

\* the pages the browser may hold: the hours of a day in order, the odd cards one
\* by one and behind a regular card, the same hour twice, more cards than 16, none,
\* ten cards without a time
RawPages ==
  { hourlyPage(10, 16), hourlyPage(14, 16), hourlyPage(0, 16), hourlyPage(6, 17),
    hourlyPage(22, 3), hourlyPage(0, 2), hourlyPage(15, 1), << >>, untimedPage(10),
    << hourCard(16, 80), hourCard(16, 81) >> }
  \cup { << c >> : c \in OddCards }
  \cup { << hourCard(14, 60), c >> : c \in OddCards }

\* the times of day at which the pages are scraped: 10:00, 14:00, 14:30 and 22:00
ScrapeTimes ==
  { 10 * TicksPerHour, 14 * TicksPerHour, 14 * TicksPerHour + 1, 22 * TicksPerHour }

VARIABLES
  listening,          \* the app.listen callback has run
  now,                \* the wall clock
  nextTick,           \* when the setInterval timer fires next
  browser,            \* 0 (null) or the number of the launch that produced the handle
  launches,           \* successful puppeteer.launch calls so far
  openPages,          \* pages opened by newPage and not yet closed
  cachedWeatherData,  \* NULL or [forecast, by]
  lastFetchTime,      \* NULL or [time, by]
  isFetching,         \* the in-flight flag
  nRuns,              \* scrapeWeatherData calls started so far
  runs,               \* the updateWeatherData calls that passed the flag check
  lastCall,           \* what the latest updateWeatherData call did
  lastError,          \* what console.error printed last: the error of a run
  reqs,               \* the requests of GET /api/hourly-forecast
  html,               \* the cards of today's and tomorrow's page as the browser holds them
  step,               \* how far the scrape of html has come
  todayResult,        \* todayResult.forecastData
  tomorrowResult,     \* tomorrowResult.forecastData
  allForecastData     \* allForecastData before the sort and the cut

\* the variables of the scrape of one pair of pages, field by field (ScrapeSpec)
scrapeVars == << html, step, todayResult, tomorrowResult, allForecastData >>

vars == << listening, now, nextTick, browser, launches, openPages, cachedWeatherData,
           lastFetchTime, isFetching, nRuns, runs, lastCall,
           lastError, reqs, scrapeVars >>

Min(a, b) == IF a < b THEN a ELSE b

(***************************************************************************)
(* getHoursRemainingInDay and the threshold test of scrapeWeatherData.     *)
(***************************************************************************)
\* steps from t to the next local midnight (msRemaining)
getHoursRemainingInDay(t) == DayTicks - (t % DayTicks)

\* variant: tomorrow's page is fetched with exactly 12 hours remaining as well
shouldFetchTomorrowAtThreshold(t) ==
  getHoursRemainingInDay(t) <= TOMORROW_FETCH_THRESHOLD_HOURS * TicksPerHour

\* shouldFetchTomorrow = hoursRemaining < TOMORROW_FETCH_THRESHOLD_HOURS
shouldFetchTomorrow(t) ==
  getHoursRemainingInDay(t) < TOMORROW_FETCH_THRESHOLD_HOURS * TicksPerHour

(***************************************************************************)
(* scrapeHourlyFromUrl: the records that page.evaluate returns for a page. *)
(***************************************************************************)
\* forecastDate: baseDate (today, or tomorrow for tomorrow's page) at hour24,
\* moved one day on when a record of today's page lies before now
forecastDate(hour24, isTomorrow, t) ==
  LET baseDay == (t \div DayTicks) + (IF isTomorrow THEN 1 ELSE 0)
      d       == baseDay * DayTicks + hour24 * TicksPerHour
  IN  IF ~isTomorrow /\ d < t THEN d + DayTicks ELSE d

\* the record built from one card
cardRecord(card, isTomorrow, t) ==
  [ datetime    |-> forecastDate(card.hour, isTomorrow, t),
    temperature |-> card.temp ]

\* variant: the records are not filtered
hasTemperatureOrNot(rec) == TRUE

\* .filter(hour => hour.temperature !== null)
hasTemperature(rec) == rec.temperature # NoTemperature

\* cards.slice(0, 16).map(...).filter(...)
forecastData(page, isTomorrow, t) ==
  LET cards == SubSeq(page, 1, Min(MAX_HOURS, Len(page)))
      recs  == [ i \in 1..Len(cards) |-> cardRecord(cards[i], isTomorrow, t) ]
  IN  SelectSeq(recs, hasTemperature)

(***************************************************************************)
(* scrapeHourlyFromUrl, field by field.  A card of the page is what the    *)
(* selectors of page.evaluate find in it:                                  *)
(*   time     the first element a time selector finds, or NULL             *)
(*   temp     the element of the first temperature selector, or NULL       *)
(*   temps    what each of the other temperature selectors finds, in order *)
(*   precips  what each precipitation selector finds, in order             *)
(*   amount   the first element a precipitation amount selector finds      *)
(*   phrases  what each phrase selector finds, in order                    *)
(* An element is NULL (querySelector found nothing) or its text: a run of  *)
(* digits (it may be empty) and the mark, period or unit behind it.        *)
(***************************************************************************)
\* parseInt of a run of decimal digits
RECURSIVE parseInt(_)
parseInt(digits) ==
  IF Len(digits) = 0 THEN 0
  ELSE parseInt(SubSeq(digits, 1, Len(digits) - 1)) * 10 + digits[Len(digits)]

\* text.match(/(\d+)\s*<mark>/): digits with the mark behind them
matches(elem, mark) == Len(elem.digits) > 0 /\ elem.mark = mark

\* the first temperature selector: a match is taken as it is
firstTemperature(card) ==
  IF card.temp # NULL /\ matches(card.temp, "deg")
    THEN parseInt(card.temp.digits)
    ELSE NoTemperature

\* the loop over the other temperature selectors from the k-th on: an element
\* inside .real-feel, one without a match and a value outside 0..150 are passed over
RECURSIVE otherTemperature(_, _)
otherTemperature(elems, k) ==
  IF k > Len(elems) THEN NoTemperature
  ELSE IF elems[k] = NULL \/ elems[k].realFeel \/ ~matches(elems[k], "deg")
    THEN otherTemperature(elems, k + 1)
  ELSE LET temp == parseInt(elems[k].digits)
       IN  IF temp >= 0 /\ temp <= 150 THEN temp ELSE otherTemperature(elems, k + 1)

\* let temperature = null ... if (temperature === null) ...
temperatureOf(card) ==
  IF firstTemperature(card) # NoTemperature
    THEN firstTemperature(card)
    ELSE otherTemperature(card.temps, 1)

\* the loop over the precipitation selectors from the k-th on: the first match of
\* /(\d+)%/ is taken, 0 if there is none
RECURSIVE precipitationOf(_, _)
precipitationOf(elems, k) ==
  IF k > Len(elems) THEN 0
  ELSE IF elems[k] # NULL /\ matches(elems[k], "%")
    THEN parseInt(elems[k].digits)
  ELSE precipitationOf(elems, k + 1)

\* precipitationAmount in hundredths of a millimetre; the text gives tenths of its
\* unit, an inch is 25.4 mm
precipitationAmountOf(card) ==
  IF card.amount = NULL \/ Len(card.amount.digits) = 0
       \/ card.amount.mark \notin {"in", "mm", "inch", "inches"}
    THEN 0
  ELSE IF card.amount.mark # "mm"
    THEN parseInt(card.amount.digits) * 254
  ELSE parseInt(card.amount.digits) * 10

\* the loop over the phrase selectors from the k-th on: the text of the first
\* element found, whatever it is
RECURSIVE phraseOf(_, _)
phraseOf(elems, k) ==
  IF k > Len(elems) THEN ""
  ELSE IF elems[k] # NULL THEN elems[k].text
  ELSE phraseOf(elems, k + 1)

\* iconPhrase || 'Clear'
iconPhraseOf(card) ==
  IF phraseOf(card.phrases, 1) = "" THEN "Clear" ELSE phraseOf(card.phrases, 1)

\* now.getHours()
getHours(t) == (t % DayTicks) \div TicksPerHour

\* hour24: now.getHours() + index, unless the time text has an hour and a period
hour24Of(card, index, t) ==
  IF card.time = NULL \/ Len(card.time.digits) = 0 THEN getHours(t) + index
  ELSE LET hour == parseInt(card.time.digits)
       IN  IF card.time.mark = "PM" /\ hour # 12 THEN hour + 12
           ELSE IF card.time.mark = "AM" /\ hour = 12 THEN 0
           ELSE IF card.time.mark \in {"AM", "PM"} THEN hour
           ELSE getHours(t) + index

\* the record that cards.map returns for the card at index (from 0)
hourRecord(card, index, isTomorrow, t) ==
  [ datetime            |-> forecastDate(hour24Of(card, index, t), isTomorrow, t),
    temperature         |-> temperatureOf(card),
    precipitation       |-> precipitationOf(card.precips, 1),
    precipitationAmount |-> precipitationAmountOf(card),
    iconPhrase          |-> iconPhraseOf(card),
    isDaylight          |-> hour24Of(card, index, t) >= 6 /\ hour24Of(card, index, t) < 20 ]

\* cards.slice(0, 16).map(...).filter(hour => hour.temperature !== null)
evaluatePage(page, isTomorrow, t) ==
  LET cards == SubSeq(page, 1, Min(MAX_HOURS, Len(page)))
      recs  == [ i \in 1..Len(cards) |-> hourRecord(cards[i], i - 1, isTomorrow, t) ]
  IN  SelectSeq(recs, hasTemperature)

(***************************************************************************)
(* scrapeWeatherData: the day merge.                                       *)
(***************************************************************************)
\* today's records plus the records of tomorrow whose datetime today has not;
\* tomorrowData = <<>> stands for "not fetched", "failed" and "no records" alike,
\* which all leave allForecastData as today's records
mergeDays(todayData, tomorrowData) ==
  LET existingDatetimes == { todayData[i].datetime : i \in 1..Len(todayData) }
      isNew(h) == h.datetime \notin existingDatetimes
  IN  IF Len(tomorrowData) > 0
        THEN todayData \o SelectSeq(tomorrowData, isNew)
        ELSE todayData

\* insertion of x behind the records that are not later than it
insertByDatetime(s, x) ==
  LET k == Cardinality({ i \in 1..Len(s) : s[i].datetime <= x.datetime })
  IN  SubSeq(s, 1, k) \o <<x>> \o SubSeq(s, k + 1, Len(s))

\* allForecastData.sort((a, b) => new Date(a.datetime) - new Date(b.datetime)):
\* ascending and stable
RECURSIVE sortByDatetime(_)
sortByDatetime(s) ==
  IF Len(s) <= 1 THEN s
  ELSE insertByDatetime(sortByDatetime(SubSeq(s, 1, Len(s) - 1)), s[Len(s)])

\* variant: the check for an empty result is missing
isEmptyResultNever(all) == FALSE

\* allForecastData.length === 0: no forecast data found
isEmptyResult(all) == Len(all) = 0

\* variant: the list is cut to 16 before it is sorted
limitedForecastCutFirst(all) ==
  sortByDatetime(SubSeq(all, 1, Min(MAX_HOURS, Len(all))))

\* the forecast that scrapeWeatherData returns for a non-empty merge
limitedForecast(all) ==
  LET sorted == sortByDatetime(all)
  IN  SubSeq(sorted, 1, Min(MAX_HOURS, Len(sorted)))

(***************************************************************************)
(* The responses of GET /api/hourly-forecast: hours is the length of the   *)
(* forecast sent (the cached one) and by the run that produced it,         *)
(* cachedAt is the run whose time is sent.                                 *)
(***************************************************************************)
\* Math.round((Date.now() - lastFetchTime.getTime()) / 1000 / 60)
cacheAge(time) ==
  IF time = NULL THEN 0
  ELSE ((now - time.time) * 60 + (TicksPerHour \div 2)) \div TicksPerHour

\* res.json({...cachedWeatherData, cachedAt: lastFetchTime?.toISOString(), cacheAgeMinutes})
dataResponse(cache, time, age) ==
  [ status |-> 200, hours |-> Len(cache.forecast), by |-> cache.by,
    cachedAt |-> IF time = NULL THEN 0 ELSE time.by,
    cacheAgeMinutes |-> age ]

\* res.status(500).json({error: ...})
errorResponse ==
  [ status |-> 500, hours |-> 0, by |-> 0, cachedAt |-> 0, cacheAgeMinutes |-> 0 ]

\* the handler after its fetch or its wait: the data if there is any, else the error
afterFetchResponse(cache, time) ==
  IF cache # NULL THEN dataResponse(cache, time, 0) ELSE errorResponse

respond(r, response) ==
  [reqs EXCEPT ![r] = [@ EXCEPT !.pc = "done", !.resp = response]]

(***************************************************************************)
(* updateWeatherData.                                                      *)
(***************************************************************************)
\* variant: the call does not look at the flag
fetchInProgressIgnored == FALSE

\* if (isFetching)
fetchInProgress == isFetching

\* variant: the skipped call runs the finally block and clears the flag
skipUpdateClearsFlag ==
  /\ lastCall' = "skipped"
  /\ isFetching' = FALSE
  /\ UNCHANGED << nRuns, runs >>

\* ... return: the call that finds a fetch in progress
skipUpdate ==
  /\ lastCall' = "skipped"
  /\ UNCHANGED << isFetching, nRuns, runs >>

\* variant: initBrowser launches a browser whether or not it has one
browserLaunchedNever == FALSE

\* initBrowser, if (!browser): a handle is at hand
browserLaunched == browser # 0

\* isFetching = true, then scrapeWeatherData up to its first await: the launch of
\* the browser, or with a browser at hand the newPage of today's scrape
startUpdate(owner) ==
  /\ nRuns < MaxRuns
  /\ isFetching' = TRUE
  /\ nRuns' = nRuns + 1
  /\ lastCall' = "started"
  /\ runs' = [runs EXCEPT ![nRuns + 1] =
                [ pc       |-> IF browserLaunched THEN "todayNew" ELSE "launch",
                  owner    |-> owner,
                  res      |-> "none",
                  tomorrow |-> browserLaunched /\ shouldFetchTomorrow(now),
                  today    |-> <<>> ]]

updateWeatherData(owner) ==
  IF fetchInProgress THEN skipUpdate ELSE startUpdate(owner)

\* finally { isFetching = false }, and with it the handler that awaited this call,
\* which resumes in the same turn and answers from the cache
finishUpdate(i, res, cache, time) ==
  /\ isFetching' = FALSE
  /\ runs' = [runs EXCEPT ![i] = [ pc |-> "done", owner |-> Scheduler, res |-> res,
                                    tomorrow |-> FALSE, today |-> <<>> ]]
  /\ reqs' = IF runs[i].owner \in Req
               THEN respond(runs[i].owner, afterFetchResponse(cache, time))
               ELSE reqs

\* variant: the catch block drops the cached data
failUpdateDropsCache(i, why) ==
  /\ finishUpdate(i, "failed", NULL, NULL)
  /\ lastError' = why
  /\ cachedWeatherData' = NULL
  /\ lastFetchTime' = NULL

\* catch (error): the error is logged, the cache is left as it is
failUpdate(i, why) ==
  /\ finishUpdate(i, "failed", cachedWeatherData, lastFetchTime)
  /\ lastError' = why
  /\ UNCHANGED << cachedWeatherData, lastFetchTime >>

\* variant: the data is replaced, the time of the fetch is not
storeResultKeepsTime(i, forecast) ==
  LET data == [forecast |-> forecast, by |-> i]
  IN  /\ cachedWeatherData' = data
      /\ UNCHANGED lastFetchTime
      /\ \E dirOk \in BOOLEAN :
           IF dirOk
             THEN /\ runs' = [runs EXCEPT ![i] =
                                [@ EXCEPT !.pc = "shotNew", !.res = "ok", !.today = <<>>]]
                  /\ UNCHANGED << isFetching, reqs >>
             ELSE finishUpdate(i, "ok", data, lastFetchTime)

\* variant: the flag is cleared when the data is cached, before the capture
storeResultReleasesFlag(i, forecast) ==
  LET data == [forecast |-> forecast, by |-> i]
      time == [time |-> now, by |-> i]
  IN  /\ cachedWeatherData' = data
      /\ lastFetchTime' = time
      /\ \E dirOk \in BOOLEAN :
           IF dirOk
             THEN /\ runs' = [runs EXCEPT ![i] =
                                [@ EXCEPT !.pc = "shotNew", !.res = "ok", !.today = <<>>]]
                  /\ isFetching' = FALSE
                  /\ UNCHANGED reqs
             ELSE finishUpdate(i, "ok", data, time)

\* cachedWeatherData = data; lastFetchTime = new Date(); then saveScreenshotAsBmp up
\* to its newPage, or to its end when the screenshots directory cannot be made
storeResult(i, forecast) ==
  LET data == [forecast |-> forecast, by |-> i]
      time == [time |-> now, by |-> i]
  IN  /\ cachedWeatherData' = data
      /\ lastFetchTime' = time
      /\ \E dirOk \in BOOLEAN :
           IF dirOk
             THEN /\ runs' = [runs EXCEPT ![i] =
                                [@ EXCEPT !.pc = "shotNew", !.res = "ok", !.today = <<>>]]
                  /\ UNCHANGED << isFetching, reqs >>
             ELSE finishUpdate(i, "ok", data, time)

\* the end of scrapeWeatherData: an empty merge is an error, anything else is
\* sorted, cut to 16 and cached; logged is what console.error printed last
finishScrape(i, all, logged) ==
  IF isEmptyResult(all) THEN failUpdate(i, "empty")
  ELSE storeResult(i, limitedForecast(all)) /\ lastError' = logged

\* the end of scrapeWeatherData when nothing was logged on the way
completeScrape(i, all) == finishScrape(i, all, lastError)

(***************************************************************************)
(* The initial state: the module is loaded, the server does not listen.    *)
(***************************************************************************)
Init ==
  /\ listening = FALSE
  /\ now = StartTime
  /\ nextTick = 0
  /\ browser = 0
  /\ launches = 0
  /\ openPages = 0
  /\ cachedWeatherData = NULL
  /\ lastFetchTime = NULL
  /\ isFetching = FALSE
  /\ nRuns = 0
  /\ runs = [ i \in Run |-> [ pc |-> "idle", owner |-> Scheduler, res |-> "none",
                              tomorrow |-> FALSE, today |-> <<>> ] ]
  /\ lastCall = "none"
  /\ lastError = "none"
  /\ reqs = [ r \in Req |-> [ pc |-> "new", found |-> 0, resp |-> NULL ] ]
  /\ html = NULL
  /\ step = "none"
  /\ todayResult = <<>>
  /\ tomorrowResult = <<>>
  /\ allForecastData = <<>>

(***************************************************************************)
(* startHourlyDataRefresh, from the app.listen callback: the first fetch   *)
(* and the interval timer.                                                 *)
(***************************************************************************)
Listen ==
  /\ ~listening
  /\ listening' = TRUE
  /\ updateWeatherData(Scheduler)
  /\ nextTick' = now + DATA_REFRESH_INTERVAL * TicksPerHour
  /\ UNCHANGED << now, browser, launches, openPages, cachedWeatherData, lastFetchTime,
                  lastError, reqs >>
  /\ UNCHANGED scrapeVars

\* variant: the callback refreshes only while nothing is cached
TickIfEmpty ==
  /\ listening
  /\ now = nextTick
  /\ IF cachedWeatherData = NULL
       THEN updateWeatherData(Scheduler)
       ELSE UNCHANGED << isFetching, nRuns, runs, lastCall >>
  /\ nextTick' = nextTick + DATA_REFRESH_INTERVAL * TicksPerHour
  /\ UNCHANGED << listening, now, browser, launches, openPages, cachedWeatherData,
                  lastFetchTime, lastError, reqs >>
  /\ UNCHANGED scrapeVars

\* the setInterval callback
Tick ==
  /\ listening
  /\ now = nextTick
  /\ updateWeatherData(Scheduler)
  /\ nextTick' = nextTick + DATA_REFRESH_INTERVAL * TicksPerHour
  /\ UNCHANGED << listening, now, browser, launches, openPages, cachedWeatherData,
                  lastFetchTime, lastError, reqs >>
  /\ UNCHANGED scrapeVars

\* the wall clock moves on; a timer that is due fires before it moves further
AdvanceTime ==
  /\ listening
  /\ now < MaxTime
  /\ now < nextTick
  /\ now' = now + 1
  /\ UNCHANGED << listening, nextTick, browser, launches, openPages, cachedWeatherData,
                  lastFetchTime, isFetching, nRuns, runs, lastCall, lastError, reqs >>
  /\ UNCHANGED scrapeVars

(***************************************************************************)
(* app.get('/api/hourly-forecast').                                        *)
(***************************************************************************)
\* variant: the cached data is served only while no fetch is in progress
hasCachedDataAndIdle == cachedWeatherData # NULL /\ ~isFetching

\* if (cachedWeatherData)
hasCachedData == cachedWeatherData # NULL

\* variant: the handler fetches without looking at the flag
noFetchRunningAssumed == TRUE

\* if (!isFetching)
noFetchRunning == ~isFetching

\* a request arrives: the handler up to its response or its first await; the
\* requests are numbered in the order of their arrival
Get(r) ==
  /\ listening
  /\ reqs[r].pc = "new"
  /\ r > 1 => reqs[r - 1].pc # "new"
  /\ IF hasCachedData
       THEN /\ reqs' = respond(r, dataResponse(cachedWeatherData, lastFetchTime,
                                               cacheAge(lastFetchTime)))
            /\ UNCHANGED << isFetching, nRuns, runs, lastCall >>
       ELSE IF noFetchRunning
         THEN /\ updateWeatherData(r)
              /\ reqs' = IF fetchInProgress
                           THEN respond(r, afterFetchResponse(cachedWeatherData,
                                                              lastFetchTime))
                           ELSE [reqs EXCEPT ![r] = [@ EXCEPT !.pc = "fetch"]]
         ELSE /\ reqs' = [reqs EXCEPT ![r] = [@ EXCEPT !.pc = "wait", !.found = nRuns]]
              /\ UNCHANGED << isFetching, nRuns, runs, lastCall >>
  /\ UNCHANGED << listening, now, nextTick, browser, launches, openPages,
                  cachedWeatherData, lastFetchTime, lastError >>
  /\ UNCHANGED scrapeVars

\* while (isFetching) await setTimeout(500): the timer of a waiting handler fires
\* and finds the flag cleared (a timer that finds it set changes nothing)
Poll(r) ==
  /\ reqs[r].pc = "wait"
  /\ ~isFetching
  /\ reqs' = respond(r, afterFetchResponse(cachedWeatherData, lastFetchTime))
  /\ UNCHANGED << listening, now, nextTick, browser, launches, openPages, cachedWeatherData,
                  lastFetchTime, isFetching, nRuns, runs, lastCall, lastError >>
  /\ UNCHANGED scrapeVars

(***************************************************************************)
(* The turns of a run of updateWeatherData.                                *)
(***************************************************************************)
setPc(i, pc) == [runs EXCEPT ![i] = [@ EXCEPT !.pc = pc]]

\* variant: the page is left open
closePageSkipped == UNCHANGED openPages

\* await page.close(), on the way out of the try block and of the catch block
closePage == openPages' = openPages - 1

\* initBrowser: puppeteer.launch (bundled, then system Chrome) ends; with a handle
\* scrapeWeatherData goes on to the threshold test and today's newPage
LaunchDone(i) ==
  /\ runs[i].pc = "launch"
  /\ \E ok \in BOOLEAN :
       IF ok
         THEN /\ browser' = launches + 1
              /\ launches' = launches + 1
              /\ runs' = [runs EXCEPT ![i] = [@ EXCEPT !.pc = "todayNew",
                                                !.tomorrow = shouldFetchTomorrow(now)]]
              /\ UNCHANGED << cachedWeatherData, lastFetchTime, isFetching, lastError, reqs >>
         ELSE /\ failUpdate(i, "launch")
              /\ UNCHANGED << browser, launches >>
  /\ UNCHANGED << listening, now, nextTick, openPages, nRuns, lastCall >>
  /\ UNCHANGED scrapeVars

\* scrapeHourlyFromUrl(today): browserInstance.newPage() ends
TodayNewPage(i) ==
  /\ runs[i].pc = "todayNew"
  /\ \E ok \in BOOLEAN :
       IF ok
         THEN /\ openPages' = openPages + 1
              /\ runs' = setPc(i, "todayLoad")
              /\ UNCHANGED << cachedWeatherData, lastFetchTime, isFetching, lastError, reqs >>
         ELSE /\ failUpdate(i, "primary")
              /\ UNCHANGED openPages
  /\ UNCHANGED << listening, now, nextTick, browser, launches, nRuns, lastCall >>
  /\ UNCHANGED scrapeVars

\* scrapeHourlyFromUrl(today): navigation and extraction end, with an error or with
\* the records of the page; the page is closed either way
TodayLoad(i) ==
  /\ runs[i].pc = "todayLoad"
  /\ closePage
  /\ \/ failUpdate(i, "primary")
     \/ \E page \in Pages :
          LET todayData == forecastData(page, FALSE, now)
          IN  IF runs[i].tomorrow
                THEN /\ runs' = [runs EXCEPT ![i] = [@ EXCEPT !.pc = "tomorrowNew",
                                                      !.today = todayData]]
                     /\ UNCHANGED << cachedWeatherData, lastFetchTime, isFetching, lastError, reqs >>
                ELSE completeScrape(i, todayData)
  /\ UNCHANGED << listening, now, nextTick, browser, launches, nRuns, lastCall >>
  /\ UNCHANGED scrapeVars

\* variant: the error of tomorrow's scrape is not caught
tomorrowFailedEscalates(i) == failUpdate(i, "secondary")

\* catch (tomorrowError): the error is logged and the scrape goes on with today's
\* records only
tomorrowFailed(i) == finishScrape(i, runs[i].today, "secondary")

\* scrapeHourlyFromUrl(tomorrow): newPage ends; its error is caught
TomorrowNewPage(i) ==
  /\ runs[i].pc = "tomorrowNew"
  /\ \E ok \in BOOLEAN :
       IF ok
         THEN /\ openPages' = openPages + 1
              /\ runs' = setPc(i, "tomorrowLoad")
              /\ UNCHANGED << cachedWeatherData, lastFetchTime, isFetching, lastError, reqs >>
         ELSE /\ tomorrowFailed(i)
              /\ UNCHANGED openPages
  /\ UNCHANGED << listening, now, nextTick, browser, launches, nRuns, lastCall >>
  /\ UNCHANGED scrapeVars

\* scrapeHourlyFromUrl(tomorrow): navigation and extraction end; an error is caught
\* and leaves today's records
TomorrowLoad(i) ==
  /\ runs[i].pc = "tomorrowLoad"
  /\ closePage
  /\ \/ tomorrowFailed(i)
     \/ \E page \in Pages :
          completeScrape(i, mergeDays(runs[i].today, forecastData(page, TRUE, now)))
  /\ UNCHANGED << listening, now, nextTick, browser, launches, nRuns, lastCall >>
  /\ UNCHANGED scrapeVars

\* variant: an error of the capture reaches the catch block of updateWeatherData
captureEndsInCatch(i) == finishUpdate(i, "failed", cachedWeatherData, lastFetchTime)

\* saveScreenshotAsBmp returns, with the file saved or with its error caught and
\* logged; updateWeatherData goes on to its finally
captureEnds(i) == finishUpdate(i, "ok", cachedWeatherData, lastFetchTime)

\* saveScreenshotAsBmp: newPage ends; its error is caught and ends the capture
ShotNewPage(i) ==
  /\ runs[i].pc = "shotNew"
  /\ \E ok \in BOOLEAN :
       IF ok
         THEN /\ openPages' = openPages + 1
              /\ runs' = setPc(i, "shotLoad")
              /\ UNCHANGED << isFetching, reqs >>
         ELSE /\ captureEnds(i)
              /\ UNCHANGED openPages
  /\ UNCHANGED << listening, now, nextTick, browser, launches, cachedWeatherData,
                  lastFetchTime, nRuns, lastCall, lastError >>
  /\ UNCHANGED scrapeVars

\* saveScreenshotAsBmp: the capture ends, saved or failed; the page is closed
ShotLoad(i) ==
  /\ runs[i].pc = "shotLoad"
  /\ closePage
  /\ captureEnds(i)
  /\ UNCHANGED << listening, now, nextTick, browser, launches, cachedWeatherData,
                  lastFetchTime, nRuns, lastCall, lastError >>
  /\ UNCHANGED scrapeVars

Next ==
  \/ Listen
  \/ Tick
  \/ AdvanceTime
  \/ \E r \in Req : Get(r)
  \/ \E r \in Req : Poll(r)
  \/ \E i \in Run : LaunchDone(i)
  \/ \E i \in Run : TodayNewPage(i)
  \/ \E i \in Run : TodayLoad(i)
  \/ \E i \in Run : TomorrowNewPage(i)
  \/ \E i \in Run : TomorrowLoad(i)
  \/ \E i \in Run : ShotNewPage(i)
  \/ \E i \in Run : ShotLoad(i)

Spec == Init /\ [][Next]_vars

(***************************************************************************)
(* FairSpec: the server over an unbounded run.  A handler that has sent    *)
(* its response has returned, and the calls of updateWeatherData that have *)
(* returned are gone, so that requests keep arriving and refreshes keep    *)
(* being started.  Every browser operation ends (newPage, goto and the     *)
(* waits have timeouts, launch and close settle), so each turn of a run is *)
(* taken at last; the 500 ms timer of a waiting handler fires at last, and *)
(* answers if it finds the flag cleared.  Nothing makes a request arrive.  *)
(***************************************************************************)
\* res.json(...) has been sent and the handler has returned: the next request
\* takes its place
Returned(r) ==
  /\ reqs[r].pc = "done"
  /\ reqs' = [reqs EXCEPT ![r] = [ pc |-> "new", found |-> 0, resp |-> NULL ]]
  /\ UNCHANGED << listening, now, nextTick, browser, launches, openPages, cachedWeatherData,
                  lastFetchTime, isFetching, nRuns, runs, lastCall, lastError >>
  /\ UNCHANGED scrapeVars

\* every call of updateWeatherData so far has returned: the next calls take
\* their places
Settled ==
  /\ nRuns = MaxRuns
  /\ \A i \in Run : runs[i].pc = "done"
  /\ nRuns' = 0
  /\ runs' = [ i \in Run |-> [ pc |-> "idle", owner |-> Scheduler, res |-> "none",
                               tomorrow |-> FALSE, today |-> <<>> ] ]
  /\ UNCHANGED << listening, now, nextTick, browser, launches, openPages, cachedWeatherData,
                  lastFetchTime, isFetching, lastCall, lastError, reqs >>
  /\ UNCHANGED scrapeVars

FairNext ==
  \/ Next
  \/ \E r \in Req : Returned(r)
  \/ Settled

\* the turns that are taken at last
Fairness ==
  /\ WF_vars(\E i \in Run : LaunchDone(i))
  /\ WF_vars(\E i \in Run : TodayNewPage(i))
  /\ WF_vars(\E i \in Run : TodayLoad(i))
  /\ WF_vars(\E i \in Run : TomorrowNewPage(i))
  /\ WF_vars(\E i \in Run : TomorrowLoad(i))
  /\ WF_vars(\E i \in Run : ShotNewPage(i))
  /\ WF_vars(\E i \in Run : ShotLoad(i))
  /\ \A r \in Req : WF_vars(Poll(r))

FairSpec == Init /\ [][FairNext]_vars /\ Fairness

(***************************************************************************)
(* ScrapeSpec: one call of scrapeWeatherData followed field by field, from *)
(* the cards of the two pages to the forecast that updateWeatherData       *)
(* caches.  The browser is at hand, no request arrives and no other call   *)
(* is made; the variables of the server that the scrape does not touch     *)
(* stay as they are.                                                       *)
(***************************************************************************)
ScrapeInit ==
  /\ listening = TRUE
  /\ now \in ScrapeTimes
  /\ nextTick = 0
  /\ browser = 1
  /\ launches = 1
  /\ openPages = 0
  /\ cachedWeatherData = NULL
  /\ lastFetchTime = NULL
  /\ isFetching = TRUE
  /\ nRuns = 0
  /\ runs = [ i \in Run |-> [ pc |-> "idle", owner |-> Scheduler, res |-> "none",
                              tomorrow |-> FALSE, today |-> <<>> ] ]
  /\ lastCall = "started"
  /\ lastError = "none"
  /\ reqs = [ r \in Req |-> [ pc |-> "new", found |-> 0, resp |-> NULL ] ]
  /\ html \in [ today : RawPages, tomorrow : RawPages ]
  /\ step = "today"
  /\ todayResult = <<>>
  /\ tomorrowResult = <<>>
  /\ allForecastData = <<>>

serverVars == << listening, now, nextTick, browser, launches, openPages, isFetching,
                 nRuns, runs, lastCall, reqs >>

\* todayResult = await scrapeHourlyFromUrl(..., false), or its error
ScrapeToday ==
  /\ step = "today"
  /\ \/ /\ step' = "failed"
        /\ lastError' = "primary"
        /\ UNCHANGED << todayResult, allForecastData >>
     \/ /\ todayResult' = evaluatePage(html.today, FALSE, now)
        /\ allForecastData' = todayResult'
        /\ step' = IF shouldFetchTomorrow(now) THEN "tomorrow" ELSE "all"
        /\ UNCHANGED lastError
  /\ UNCHANGED << serverVars, cachedWeatherData, lastFetchTime, html, tomorrowResult >>

\* tomorrowResult = await scrapeHourlyFromUrl(..., true) and the merge, or its
\* error, which is caught
ScrapeTomorrow ==
  /\ step = "tomorrow"
  /\ step' = "all"
  /\ \/ /\ lastError' = "secondary"
        /\ UNCHANGED << tomorrowResult, allForecastData >>
     \/ /\ tomorrowResult' = evaluatePage(html.tomorrow, TRUE, now)
        /\ allForecastData' = mergeDays(todayResult, tomorrowResult')
        /\ UNCHANGED lastError
  /\ UNCHANGED << serverVars, cachedWeatherData, lastFetchTime, html, todayResult >>

\* the end of scrapeWeatherData and the assignments of updateWeatherData
StoreForecast ==
  /\ step = "all"
  /\ IF isEmptyResult(allForecastData)
       THEN /\ step' = "failed"
            /\ lastError' = "empty"
            /\ UNCHANGED << cachedWeatherData, lastFetchTime >>
       ELSE /\ step' = "cached"
            /\ cachedWeatherData' = [forecast |-> limitedForecast(allForecastData), by |-> 1]
            /\ lastFetchTime' = [time |-> now, by |-> 1]
            /\ UNCHANGED lastError
  /\ UNCHANGED << serverVars, html, todayResult, tomorrowResult, allForecastData >>

ScrapeNext ==
  \/ ScrapeToday
  \/ ScrapeTomorrow
  \/ StoreForecast

ScrapeSpec == ScrapeInit /\ [][ScrapeNext]_vars

(***************************************************************************)
(* Properties.                                                             *)
(***************************************************************************)
\* the runs of updateWeatherData that are between their start and their finally
activeRuns == { i \in Run : runs[i].pc \notin {"idle", "done"} }

\* request r leaves the state "arrived not yet" in this step
arrives(r) == reqs[r].pc = "new" /\ reqs'[r].pc # "new"

\* run i ends in this step with an error
fails(i) == runs[i].pc \notin {"idle", "done"} /\ runs'[i].pc = "done" /\ runs'[i].res = "failed"

\* C1: at most one run of the refresh is in progress in every reachable state, and
\* a run in progress holds the in-flight flag, whatever the order of the scheduled
\* ticks and of the requests on the empty cache.
C1_OneRefreshAtATime ==
  /\ Cardinality(activeRuns) <= 1
  /\ activeRuns # {} => isFetching

\* a refresh is in flight while a tick has been skipped and a request waits for it
C1_Witness ==
  /\ Cardinality(activeRuns) = 1
  /\ lastCall = "skipped"
  /\ \E r \in Req : reqs[r].pc = "wait"

\* C2: of the requests that arrive on the empty cache, the one that finds no
\* refresh in flight starts exactly one scrape, which it owns; every request that
\* arrives while a refresh is in flight starts none and is left waiting; and a
\* waiting request never owns a run.
C2_SingleFlight ==
  /\ [][ \A r \in Req :
           (arrives(r) /\ cachedWeatherData = NULL) =>
             IF isFetching
               THEN nRuns' = nRuns /\ runs' = runs /\ reqs'[r].pc = "wait"
               ELSE nRuns' = nRuns + 1 /\ runs'[nRuns'].owner = r /\ reqs'[r].pc = "fetch"
       ]_vars
  /\ [](\A i \in Run : runs[i].owner \in Req => reqs[runs[i].owner].pc = "fetch")

\* one request has started the refresh in flight and a later one waits for it
C2_Witness ==
  \E r1 \in Req, r2 \in Req :
    /\ reqs[r1].pc = "fetch"
    /\ reqs[r2].pc = "wait"
    /\ reqs[r2].found = nRuns
    /\ runs[nRuns].owner = r1
    /\ Cardinality(activeRuns) = 1

\* C3: a run that fails while the cache is populated leaves the cached data and the
\* time of its fetch as they were, and a request that arrives on the populated
\* cache is answered with the cached data.
C3_StaleFallback ==
  [][ /\ \A i \in Run :
           (fails(i) /\ cachedWeatherData # NULL) =>
             cachedWeatherData' = cachedWeatherData /\ lastFetchTime' = lastFetchTime
      /\ \A r \in Req :
           (arrives(r) /\ cachedWeatherData # NULL) =>
             /\ reqs'[r].resp.status = 200
             /\ reqs'[r].resp.by = cachedWeatherData.by
             /\ reqs'[r].resp.hours = Len(cachedWeatherData.forecast)
             /\ reqs'[r].resp.cachedAt = lastFetchTime.by
    ]_vars

\* the data of run 1 is still cached after run 2 has failed on the primary page,
\* and a request has been answered with it
C3_Witness ==
  /\ cachedWeatherData # NULL
  /\ cachedWeatherData.by = 1
  /\ runs[2].pc = "done"
  /\ runs[2].res = "failed"
  /\ lastError = "primary"
  /\ \E r \in Req : reqs[r].pc = "done" /\ reqs[r].resp.status = 200 /\ reqs[r].resp.by = 1

\* C4: a request that arrives on a populated cache is answered in its first turn
\* with the data: it starts no run, does not wait, and leaves the flag alone,
\* whether or not a refresh is in flight and whatever the age of the data.
C4_CachedImmediate ==
  [][ \A r \in Req :
        (arrives(r) /\ cachedWeatherData # NULL) =>
          /\ reqs'[r].pc = "done"
          /\ reqs'[r].resp.status = 200
          /\ nRuns' = nRuns
          /\ runs' = runs
          /\ isFetching' = isFetching
    ]_vars

\* the only run so far is still in flight (its screenshot is being taken) and a
\* request has been answered with its data, which was not fresh any more
C4_Witness ==
  /\ nRuns = 1
  /\ runs[1].pc \in {"shotNew", "shotLoad"}
  /\ isFetching
  /\ \E r \in Req :
       /\ reqs[r].pc = "done"
       /\ reqs[r].resp.status = 200
       /\ reqs[r].resp.cacheAgeMinutes > 0

\* C5: a request that found a refresh in flight on the empty cache is answered
\* when that refresh has ended and before any later refresh has been started: at
\* its answer the run it found is still the latest one.
C5_WaiterAnsweredByFoundRefresh ==
  [][ \A r \in Req :
        (reqs[r].pc = "wait" /\ reqs'[r].pc = "done") => nRuns = reqs[r].found
    ]_vars

\* C6: a run that fails on the empty cache leaves the cache empty; the request
\* that started it and the requests that found it in flight are answered with
\* the error, never with data; and a run starts only in a tick of the scheduler
\* (or its first call) or in the arrival of a request.
C6_FailureVisible ==
  [][ /\ \A i \in Run :
           (fails(i) /\ cachedWeatherData = NULL) =>
             /\ cachedWeatherData' = NULL
             /\ lastFetchTime' = NULL
             /\ runs[i].owner \in Req => reqs'[runs[i].owner].resp.status = 500
      /\ \A r \in Req :
           ( /\ reqs[r].pc = "wait"
             /\ reqs'[r].pc = "done"
             /\ runs[reqs[r].found].res = "failed" ) =>
             reqs'[r].resp.status = 500
      /\ nRuns' # nRuns => (nextTick' # nextTick \/ \E r \in Req : arrives(r))
    ]_vars

\* C7: a tick of the scheduler that calls updateWeatherData while a refresh is in
\* flight starts no run and leaves the runs, the cached data, the time of its
\* fetch and the flag (still set) as they were.
C7_SkippedCallIsNoOp ==
  [][ (nextTick' # nextTick /\ isFetching) =>
        /\ isFetching'
        /\ lastCall' = "skipped"
        /\ nRuns' = nRuns
        /\ runs' = runs
        /\ cachedWeatherData' = cachedWeatherData
        /\ lastFetchTime' = lastFetchTime
    ]_vars

\* the latest call was skipped and the run it met is still in flight
C7_Witness ==
  /\ lastCall = "skipped"
  /\ isFetching
  /\ Cardinality(activeRuns) = 1

\* C8: in every state the cached data is present exactly if the time of its fetch
\* is, both come from the same run, and every answer with data carries the time
\* of the run that produced the data.
C8_EntryAndTimeTogether ==
  /\ cachedWeatherData = NULL <=> lastFetchTime = NULL
  /\ cachedWeatherData # NULL => lastFetchTime.by = cachedWeatherData.by
  /\ \A r \in Req :
       (reqs[r].pc = "done" /\ reqs[r].resp.status = 200) =>
         reqs[r].resp.cachedAt = reqs[r].resp.by

\* the data of run 1 has been served and then replaced by the data of run 2
C8_Witness ==
  /\ cachedWeatherData # NULL
  /\ cachedWeatherData.by = 2
  /\ lastFetchTime.time > StartTime
  /\ \E r \in Req : reqs[r].pc = "done" /\ reqs[r].resp.status = 200 /\ reqs[r].resp.by = 1

\* C9: the cached forecast is never empty, and no answer with data carries an
\* empty forecast.
C9_CachedForecastNonEmpty ==
  /\ cachedWeatherData # NULL => Len(cachedWeatherData.forecast) > 0
  /\ \A r \in Req :
       (reqs[r].pc = "done" /\ reqs[r].resp.status = 200) => reqs[r].resp.hours > 0

\* a run has ended with the error of the empty merge and nothing was cached
C9_Witness ==
  /\ lastError = "empty"
  /\ cachedWeatherData = NULL
  /\ \E i \in Run : runs[i].pc = "done" /\ runs[i].res = "failed"

\* C10: the cached forecast is sorted strictly ascending by datetime (and so holds
\* no datetime twice).
C10_StrictlyAscending ==
  cachedWeatherData # NULL =>
    \A k \in 1..(Len(cachedWeatherData.forecast) - 1) :
      cachedWeatherData.forecast[k].datetime < cachedWeatherData.forecast[k + 1].datetime

\* how often record x stands in the list s
occurrences(s, x) == Cardinality({ k \in 1..Len(s) : s[k] = x })

\* the records of the list s
recordsOf(s) == { s[k] : k \in 1..Len(s) }

\* C11: no page yields more than 16 records, and the cached forecast holds at most
\* 16: it is in ascending order and holds the 16 earliest records of the merged
\* list (all of it, if that has no more than 16), i.e. no record it leaves out is
\* earlier than one it keeps; this with one page scraped and with two.
C11_SixteenEarliest ==
  /\ Len(todayResult) <= 16
  /\ Len(tomorrowResult) <= 16
  /\ step = "cached" =>
       LET forecast == cachedWeatherData.forecast
       IN  /\ Len(forecast) <= 16
           /\ Len(forecast) = Min(16, Len(allForecastData))
           /\ \A k \in 1..(Len(forecast) - 1) :
                forecast[k].datetime <= forecast[k + 1].datetime
           /\ \A x \in recordsOf(allForecastData) :
                /\ occurrences(forecast, x) <= occurrences(allForecastData, x)
                /\ occurrences(forecast, x) < occurrences(allForecastData, x) =>
                     \A k \in 1..Len(forecast) : forecast[k].datetime <= x.datetime

\* two pages gave more than 16 records that were not in order, and 16 are cached
C11_Witness ==
  /\ step = "cached"
  /\ Len(tomorrowResult) > 0
  /\ Len(allForecastData) > 16
  /\ \E k \in 1..(Len(allForecastData) - 1) :
       allForecastData[k].datetime > allForecastData[k + 1].datetime
  /\ Len(cachedWeatherData.forecast) = 16

\* the datetimes of the records of the list s
datetimesOf(s) == { s[k].datetime : k \in 1..Len(s) }

\* the positions of the list s whose record has datetime d
positionsOf(s, d) == { k \in 1..Len(s) : s[k].datetime = d }

\* the merged list is today's records followed by the records of tomorrow whose
\* datetime today has not
C12_TodayPlusNewTomorrow ==
  step \in {"all", "cached"} =>
    LET isNew(h) == h.datetime \notin datetimesOf(todayResult)
    IN  allForecastData = todayResult \o SelectSeq(tomorrowResult, isNew)

\* C12: the merged list is today's records followed by exactly the records of
\* tomorrow whose datetime today has not, and a datetime that both scrapes hold
\* stands in the merged list exactly once, with today's record.
C12_MergeKeepsEachOnce ==
  /\ C12_TodayPlusNewTomorrow
  /\ step \in {"all", "cached"} =>
       \A d \in datetimesOf(todayResult) \cap datetimesOf(tomorrowResult) :
         /\ Cardinality(positionsOf(allForecastData, d)) = 1
         /\ \A k \in positionsOf(allForecastData, d) : allForecastData[k] \in recordsOf(todayResult)

\* run i has the browser in this step and goes on to today's page
entersScrape(i) == runs[i].pc \in {"idle", "launch"} /\ runs'[i].pc = "todayNew"

\* run i ends the scrape of today's page in this step without an error of the page
todayScraped(i) ==
  /\ runs[i].pc = "todayLoad"
  /\ runs'[i].pc # "todayLoad"
  /\ ~(fails(i) /\ lastError' = "primary")

\* C13: a run that has the browser scrapes today's page first, whatever the time,
\* and decides then whether tomorrow's page is wanted: exactly if fewer than 12
\* hours (24 steps of the clock) remain to the next midnight, so not with exactly
\* 12 hours remaining.  When today's page has been scraped, tomorrow's page is
\* scraped exactly if the run decided so, and no run comes to tomorrow's page any
\* other way.  (A run whose browser cannot be launched ends before any scrape.)
C13_TomorrowBelowThreshold ==
  [][ \A i \in Run :
        /\ (runs[i].pc \in {"idle", "launch"} /\ runs'[i].pc # runs[i].pc) =>
             runs'[i].pc \in {"launch", "todayNew", "done"}
        /\ entersScrape(i) =>
             (runs'[i].tomorrow <=> (DayTicks - (now % DayTicks)) < 12 * TicksPerHour)
        /\ (runs[i].pc \in {"todayNew", "todayLoad"} /\ runs'[i].pc \in {"todayNew", "todayLoad"}) =>
             runs'[i].tomorrow = runs[i].tomorrow
        /\ todayScraped(i) => (runs'[i].pc = "tomorrowNew" <=> runs[i].tomorrow)
        /\ (runs'[i].pc = "tomorrowNew" /\ runs[i].pc # "tomorrowNew") => todayScraped(i)
    ]_vars

\* at 12:30, the first time that fewer than 12 hours remain, a run is at
\* tomorrow's page
C13_Witness ==
  /\ now = StartTime + 2
  /\ \E i \in Run : runs[i].pc \in {"tomorrowNew", "tomorrowLoad"} /\ runs[i].tomorrow

\* run i ends its scrape of tomorrow's page in this step
tomorrowEnds(i) ==
  /\ runs[i].pc \in {"tomorrowNew", "tomorrowLoad"}
  /\ runs'[i].pc \notin {"tomorrowNew", "tomorrowLoad"}

\* tomorrow's scrape throws in this step of run i: newPage threw, or the error of
\* the page has just been logged
tomorrowThrows(i) ==
  /\ tomorrowEnds(i)
  /\ \/ runs[i].pc = "tomorrowNew"
     \/ lastError # "secondary" /\ lastError' = "secondary"

\* C14: whatever becomes of tomorrow's scrape, a run that has records of today does
\* not fail: it caches a forecast under its own time, and the forecast holds
\* today's records at least; when tomorrow's scrape throws, the forecast is today's
\* records, sorted and cut, and nothing else.
C14_TomorrowFailureTolerated ==
  [][ \A i \in Run :
        (tomorrowEnds(i) /\ Len(runs[i].today) > 0) =>
          /\ ~fails(i)
          /\ runs'[i].res = "ok"
          /\ lastError' \in {lastError, "secondary"}
          /\ cachedWeatherData' # NULL
          /\ cachedWeatherData'.by = i
          /\ lastFetchTime' = [time |-> now, by |-> i]
          /\ Len(cachedWeatherData'.forecast) >= Len(runs[i].today)
          /\ tomorrowThrows(i) =>
               cachedWeatherData'.forecast = limitedForecast(runs[i].today)
    ]_vars

\* the only run so far met an error on tomorrow's page, went on and is done: its
\* forecast is cached
C14_Witness ==
  /\ nRuns = 1
  /\ runs[1].pc = "done"
  /\ runs[1].res = "ok"
  /\ lastError = "secondary"
  /\ cachedWeatherData # NULL
  /\ cachedWeatherData.by = 1

\* C15: when no card of today's page yields a record, the refresh fails and
\* nothing is cached, whatever tomorrow's page yields.
C15_EmptyTodayFailsRefresh ==
  Len(evaluatePage(html.today, FALSE, now)) = 0 =>
    /\ step # "cached"
    /\ cachedWeatherData = NULL

\* the cards of a page that page.evaluate looks at and that show a temperature
cardsWithTemperature(page) ==
  { k \in 1..Min(16, Len(page)) : temperatureOf(page[k]) # NoTemperature }

\* C16: every record that a page yields, that the merge holds and that is cached
\* has a temperature, a number; a page yields one record for each of its cards
\* that shows a temperature, whatever else the card shows or lacks (time,
\* precipitation, amount, phrase), and none for a card that shows no temperature.
C16_TemperaturePresent ==
  /\ \A x \in recordsOf(todayResult) \cup recordsOf(tomorrowResult)
                \cup recordsOf(allForecastData) :
       x.temperature # NoTemperature /\ x.temperature \in Nat
  /\ cachedWeatherData # NULL =>
       \A x \in recordsOf(cachedWeatherData.forecast) :
         x.temperature # NoTemperature /\ x.temperature \in Nat
  /\ (step \in {"tomorrow", "all", "cached"} \/ lastError = "empty") =>
       Len(todayResult) = Cardinality(cardsWithTemperature(html.today))
  /\ Len(tomorrowResult) \in {0, Cardinality(cardsWithTemperature(html.tomorrow))}

\* today's page has a card that shows nothing but a temperature, and its record is
\* cached; tomorrow's page has a card without a temperature, and gave one record
\* for its two cards
C16_Witness ==
  /\ step = "cached"
  /\ Len(html.today) = 2
  /\ html.today[2].time = NULL
  /\ html.today[2].precips = << >>
  /\ html.today[2].amount = NULL
  /\ html.today[2].phrases = << >>
  /\ Len(cachedWeatherData.forecast) = 3
  /\ Len(todayResult) = 2
  /\ Len(html.tomorrow) = 2
  /\ Len(tomorrowResult) = 1

\* C17: whichever selector supplied it, the first one included, the temperature of
\* a record that a page yields lies in 0..150.
C17_SelectorTemperatureInRange ==
  \A x \in recordsOf(todayResult) \cup recordsOf(tomorrowResult) :
    x.temperature >= 0 /\ x.temperature <= 150

\* C18: every record of the cached forecast, which is the forecast that
\* GET /api/hourly-forecast serves, has a temperature from 20 to 120.
C18_ServedTemperatureReasonable ==
  cachedWeatherData # NULL =>
    \A k \in 1..Len(cachedWeatherData.forecast) :
      /\ cachedWeatherData.forecast[k].temperature >= 20
      /\ cachedWeatherData.forecast[k].temperature <= 120

\* C19: the precipitation of every record of the merged list is a whole number
\* from 0 to 100.
C19_PrecipitationIsPercentage ==
  \A k \in 1..Len(allForecastData) :
    /\ allForecastData[k].precipitation \in Nat
    /\ allForecastData[k].precipitation <= 100

\* the scheduler calls updateWeatherData in this step and the call starts a run
scheduledRunStarts ==
  /\ nRuns' = nRuns + 1
  /\ runs'[nRuns'].owner = Scheduler
  /\ runs'[nRuns'].pc \in {"launch", "todayNew"}
  /\ isFetching'
  /\ lastCall' = "started"

capturing(i) == runs[i].pc \in {"shotNew", "shotLoad"}

\* C21: the cached data is replaced only by a run that is scraping, together with
\* the time, and that run goes on to the capture in the same turn (or has ended it
\* at once, the directory of the screenshots failing).  A run enters the capture
\* only in the turn in which it has replaced the cached data.  A run that fails
\* was not in the capture, and a run in the capture, however that ends, leaves the
\* cached data and its time alone and ends as a success.
C21_CaptureAfterReplace ==
  [][ /\ cachedWeatherData' # cachedWeatherData =>
           \E i \in Run :
             /\ runs[i].pc \in {"todayLoad", "tomorrowNew", "tomorrowLoad"}
             /\ cachedWeatherData'.by = i
             /\ lastFetchTime' = [time |-> now, by |-> i]
             /\ runs'[i].res = "ok"
             /\ runs'[i].pc \in {"shotNew", "done"}
      /\ \A i \in Run :
           /\ (capturing(i)' /\ ~capturing(i)) =>
                /\ runs'[i].pc = "shotNew"
                /\ cachedWeatherData' # cachedWeatherData
                /\ cachedWeatherData'.by = i
           /\ fails(i) => (~capturing(i) /\ cachedWeatherData' = cachedWeatherData)
           /\ (capturing(i) /\ runs'[i] # runs[i]) =>
                /\ cachedWeatherData' = cachedWeatherData
                /\ lastFetchTime' = lastFetchTime
                /\ runs'[i].res = "ok"
                /\ runs'[i].pc \in {"shotLoad", "done"}
    ]_vars

\* the first run failed on today's page and cached nothing; the second has cached
\* its forecast and is in the capture, its page open
C21_Witness ==
  /\ nRuns = 2
  /\ runs[1].res = "failed"
  /\ runs[2].pc = "shotLoad"
  /\ cachedWeatherData # NULL
  /\ cachedWeatherData.by = 2
  /\ lastFetchTime.by = 2

\* the runs that wait for puppeteer.launch
launching == { i \in Run : runs[i].pc = "launch" }

\* C22: at most one launch has succeeded and the handle is that of this launch; at
\* most one launch is in progress, and none while there is a handle; every run
\* that is past initBrowser, in a scrape or in the capture, has this handle.
C22_OneBrowser ==
  /\ launches <= 1
  /\ browser = launches
  /\ Cardinality(launching) <= 1
  /\ launching # {} => browser = 0
  /\ \A i \in Run :
       runs[i].pc \in {"todayNew", "todayLoad", "tomorrowNew", "tomorrowLoad",
                       "shotNew", "shotLoad"} => browser = 1

\* the launch of the first run failed; the second run launched the browser and,
\* after its scrape, is in the capture with the same handle
C22_Witness ==
  /\ nRuns = 2
  /\ runs[1].res = "failed"
  /\ lastError = "launch"
  /\ cachedWeatherData # NULL
  /\ runs[2].pc = "shotNew"
  /\ launches = 1
  /\ browser = 1
  /\ \E r \in Req : reqs[r].pc = "done" /\ reqs[r].resp.status = 500

\* the runs that have a page open: between newPage and the end of the call
withPage == { i \in Run : runs[i].pc \in {"todayLoad", "tomorrowLoad", "shotLoad"} }

\* C23: the pages that are open are those of the calls under way: a call that has
\* returned or thrown has closed its page, so a run that has failed, is between two
\* scrapes or is done has none, and no page is open while no refresh is in flight.
C23_PagesClosed ==
  /\ openPages = Cardinality(withPage)
  /\ openPages <= 1
  /\ ~isFetching => openPages = 0

\* the first run failed on today's page, the second has scraped today's page and
\* has tomorrow's page open: one page is open, not two
C23_Witness ==
  /\ nRuns = 2
  /\ runs[1].res = "failed"
  /\ lastError = "primary"
  /\ runs[2].pc = "tomorrowLoad"
  /\ Len(runs[2].today) > 0
  /\ openPages = 1

\* the midnight with which the day of time t begins
startOfDay(t) == (t \div DayTicks) * DayTicks

\* C24: the record of a card of today's page whose hour h is in 0..23 is dated
\* tomorrow at h if h is earlier than the current hour, and today at h if h is the
\* current hour or a later one, whatever the minute; the record of a card of
\* tomorrow's page is dated tomorrow at its hour.
C24_EarlierHourIsTomorrow ==
  /\ step \in {"tomorrow", "all", "cached"} =>
       \A k \in cardsWithTemperature(html.today) :
         LET h == hour24Of(html.today[k], k - 1, now)
             x == hourRecord(html.today[k], k - 1, FALSE, now)
         IN  /\ x \in recordsOf(todayResult)
             /\ h \in 0..23 =>
                  x.datetime = IF h < getHours(now)
                                 THEN startOfDay(now) + DayTicks + h * TicksPerHour
                                 ELSE startOfDay(now) + h * TicksPerHour
  /\ Len(tomorrowResult) > 0 =>
       \A k \in cardsWithTemperature(html.tomorrow) :
         LET h == hour24Of(html.tomorrow[k], k - 1, now)
             x == hourRecord(html.tomorrow[k], k - 1, TRUE, now)
         IN  /\ x \in recordsOf(tomorrowResult)
             /\ x.datetime = startOfDay(now) + DayTicks + h * TicksPerHour

\* C25: isDaylight of a record is true exactly if the hour of the day of its
\* datetime is 6 or later and earlier than 20, for the records of both pages,
\* whether the hour was read from the card or counted from the current hour.
C25_DaylightFromLocalHour ==
  \A x \in recordsOf(todayResult) \cup recordsOf(tomorrowResult) :
    x.isDaylight <=> (getHours(x.datetime) >= 6 /\ getHours(x.datetime) < 20)

\* the text of the first element from the k-th on that has a text, "" if none has
RECURSIVE firstText(_, _)
firstText(elems, k) ==
  IF k > Len(elems) THEN ""
  ELSE IF elems[k] # NULL /\ elems[k].text # "" THEN elems[k].text
  ELSE firstText(elems, k + 1)

\* C26: the phrase of a record is the text of the first phrase selector, in their
\* order, whose element has a text, and "Clear" if there is no such selector; an
\* element without text does not end the search.
C26_FirstNonEmptyPhrase ==
  step \in {"tomorrow", "all", "cached"} =>
    \A k \in cardsWithTemperature(html.today) :
      LET x == hourRecord(html.today[k], k - 1, FALSE, now)
          t == firstText(html.today[k].phrases, 1)
      IN  /\ x \in recordsOf(todayResult)
          /\ x.iconPhrase = IF t = "" THEN "Clear" ELSE t

\* the numbers with a degree mark in the text of a card, which is the text of all
\* its elements
degreesIn(card) ==
  { parseInt(e.digits) : e \in { e \in {card.temp} \cup recordsOf(card.temps) :
                                   e # NULL /\ matches(e, "deg") } }

\* the scan of the text of a card: the largest number from 40 to 120 with a degree
\* mark, NoTemperature if there is none
scanCardText(card) ==
  LET temps == { n \in degreesIn(card) : n >= 40 /\ n <= 120 }
  IN  IF temps = {} THEN NoTemperature
      ELSE CHOOSE m \in temps : \A n \in temps : n <= m

\* the cards of a page that page.evaluate looks at, that show no temperature to
\* the selectors and one to the scan of their text
cardsWithScannedTemperature(page) ==
  { k \in 1..Min(16, Len(page)) :
      temperatureOf(page[k]) = NoTemperature /\ scanCardText(page[k]) # NoTemperature }

\* C27: a card that shows no temperature to the selectors gets the temperature
\* that the scan of its text finds, and has a record; a card has no record only
\* if the scan finds nothing either.
C27_ScanOfCardText ==
  step \in {"tomorrow", "all", "cached"} =>
    /\ Len(todayResult) = Cardinality(cardsWithTemperature(html.today)
                                        \cup cardsWithScannedTemperature(html.today))
    /\ \A k \in cardsWithScannedTemperature(html.today) :
         \E x \in recordsOf(todayResult) :
           /\ x.temperature = scanCardText(html.today[k])
           /\ x.datetime = forecastDate(hour24Of(html.today[k], k - 1, now), FALSE, now)

\* C28: from the state in which data is cached, every step leaves data cached
\* and the time of its fetch present and not earlier than it was, and every
\* request that arrives is answered in its first turn with data, without a wait.
C28_PopulatedForGood ==
  [][ cachedWeatherData # NULL =>
        /\ cachedWeatherData' # NULL
        /\ lastFetchTime' # NULL
        /\ lastFetchTime'.time >= lastFetchTime.time
        /\ lastFetchTime'.by >= lastFetchTime.by
        /\ \A r \in Req :
             arrives(r) => reqs'[r].pc = "done" /\ reqs'[r].resp.status = 200
    ]_vars

\* the data of run 1 has outlived run 2, which ended with the error of the empty
\* merge, and has been served at an age of some minutes
C28_Witness ==
  /\ nRuns = 2
  /\ runs[1].res = "ok"
  /\ runs[2].pc = "done"
  /\ runs[2].res = "failed"
  /\ lastError = "empty"
  /\ cachedWeatherData # NULL
  /\ cachedWeatherData.by = 1
  /\ lastFetchTime.time < now
  /\ \E r \in Req :
       /\ reqs[r].pc = "done"
       /\ reqs[r].resp.status = 200
       /\ reqs[r].resp.cacheAgeMinutes > 0

\* C29: while a run captures the screenshot the flag is set, no other run is in
\* flight and the data of that run is cached; a request that arrives during the
\* capture is answered in its first turn with that data and does not wait, and a
\* tick during the capture is skipped and leaves the capture as it is.
C29_CaptureUnderFlag ==
  /\ [](\A i \in Run :
          capturing(i) =>
            /\ isFetching
            /\ activeRuns = {i}
            /\ cachedWeatherData # NULL
            /\ cachedWeatherData.by = i)
  /\ [][ \A i \in Run :
           capturing(i) =>
             /\ \A r \in Req :
                  arrives(r) =>
                    /\ reqs'[r].pc = "done"
                    /\ reqs'[r].resp.status = 200
                    /\ reqs'[r].resp.by = i
                    /\ capturing(i)'
                    /\ isFetching'
             /\ nextTick' # nextTick =>
                  /\ lastCall' = "skipped"
                  /\ nRuns' = nRuns
                  /\ runs' = runs
                  /\ isFetching'
       ]_vars

\* the page of the capture is open, the request made during the capture has been
\* answered with the data of the capturing run, and the tick that fired during
\* the capture was skipped
C29_Witness ==
  \E i \in Run :
    /\ runs[i].pc = "shotLoad"
    /\ openPages = 1
    /\ lastCall = "skipped"
    /\ lastFetchTime.time < nextTick - DATA_REFRESH_INTERVAL * TicksPerHour
    /\ \E r \in Req :
         /\ reqs[r].pc = "done"
         /\ reqs[r].resp.status = 200
         /\ reqs[r].resp.by = i
         /\ reqs[r].resp.cachedAt = i

\* the flag is set exactly while one run is in flight, and whenever it is set it
\* is cleared later
flagFollowsRun ==
  /\ [](isFetching <=> Cardinality(activeRuns) = 1)
  /\ (isFetching ~> ~isFetching)

\* C30: the flag is set exactly while one run is in flight; whenever it is set
\* it is cleared later, whichever way the run ends; and every request that waits
\* for the flag is answered later.
C30_FlagClearedWaitersAnswered ==
  /\ flagFollowsRun
  /\ \A r \in Req : (reqs[r].pc = "wait") ~> (reqs[r].pc = "done")

=============================================================================
